---- MODULE Spec2Model ----
(***************************************************************************)
(* The ORKL gateway of src/orkl/server.py: a process-wide cache of three   *)
(* insertion-ordered dictionaries, the two resource handlers that read it  *)
(* (handle_list_resources, handle_read_resource) and the tool handler that *)
(* fills it (handle_call_tool).                                            *)
(*                                                                         *)
(* Strings that the code takes apart (ids, addresses) are sequences of     *)
(* atoms, so that formatting, URL parsing, strip and split are computed.   *)
(* The handlers run on one asyncio loop: a handler runs without            *)
(* interruption from one await to the next.  handle_call_tool has one      *)
(* await that yields to other handlers, client.get; the two resource       *)
(* handlers have none.                                                     *)
(***************************************************************************)
EXTENDS Integers, Sequences, FiniteSets, TLC

VARIABLES
    cache,      \* the global cache: partition name -> ordered dict
    inflight,   \* tool invocations suspended in client.get: task -> frame
    clients,    \* tasks whose httpx.AsyncClient is open
    ncalls,     \* number of tool invocations started so far
    requests,   \* number of upstream GET requests issued so far
    last,       \* the handler invocation that finished last, with its outcome
    seen        \* history: the ids the successful list calls returned

vars == <<cache, inflight, clients, ncalls, requests, last, seen>>

-----------------------------------------------------------------------------
(* Bounds of the model *)

MaxCalls == 2       \* tool invocations per behaviour

-----------------------------------------------------------------------------
(* Values *)

ORKL_BASE_URL == "https://orkl.eu/api/v1"

Partitions == {"threat_reports", "threat_actors", "sources"}
Kinds == {"report", "actor", "source"}

\* A string is a sequence of atoms; "/" and "://" are atoms of their own.
\* ids are strings the upstream assigns; an id may hold a '/'
IdA == <<"a">>
IdSlash == <<"report", "/", "a">>
Ids == {IdA, IdSlash}

ListTools == {"fetch_latest_threat_reports", "fetch_threat_actors", "fetch_sources"}
DetailTools == {"fetch_threat_report_details", "fetch_threat_actor_details",
                "fetch_source_details"}
ToolNames == ListTools \cup DetailTools
CalledNames == ToolNames \cup {"fetch_everything"}   \* one name outside the six

\* the cache partition a tool writes
PartitionOfShared(name) == "threat_reports"

PartitionOf(name) ==
    CASE name \in {"fetch_latest_threat_reports", "fetch_threat_report_details"} -> "threat_reports"
      [] name \in {"fetch_threat_actors", "fetch_threat_actor_details"} -> "threat_actors"
      [] name \in {"fetch_sources", "fetch_source_details"} -> "sources"

\* the argument a detail tool reads
IdKey(name) ==
    CASE name = "fetch_threat_report_details" -> "report_id"
      [] name = "fetch_threat_actor_details" -> "actor_id"
      [] name = "fetch_source_details" -> "source_id"

\* the field a partition's records are displayed by
DisplayField(part) ==
    CASE part = "threat_reports" -> "title"
      [] part = "threat_actors" -> "main_name"
      [] part = "sources" -> "name"

\* the kind segment list_resources writes for a partition
KindOf(part) ==
    CASE part = "threat_reports" -> "report"
      [] part = "threat_actors" -> "actor"
      [] part = "sources" -> "source"

-----------------------------------------------------------------------------
(* Python dict: insertion-ordered, a sequence of [key, val] with unique keys *)

HasKey(d, k) == \E n \in 1..Len(d) : d[n].key = k

\* d.get(k, default)
Get(d, k, default) ==
    IF HasKey(d, k) THEN d[CHOOSE n \in 1..Len(d) : d[n].key = k].val ELSE default

PutLast(d, k, v) ==
    Append(SelectSeq(d, LAMBDA e : e.key # k), [key |-> k, val |-> v])

PutAlone(d, k, v) == <<[key |-> k, val |-> v]>>

\* d[k] = v: an existing key keeps its position, a new key goes last
Put(d, k, v) ==
    IF HasKey(d, k)
    THEN [n \in 1..Len(d) |-> IF d[n].key = k THEN [key |-> k, val |-> v] ELSE d[n]]
    ELSE Append(d, [key |-> k, val |-> v])

-----------------------------------------------------------------------------
(* Upstream records: JSON objects, here field name -> string.  A record of *)
(* a partition has at most the fields id and the partition's display field *)

Fields == <<"id", "title", "main_name", "name">>

\* a complete record: its id and its display field
Entity(part, id, display) == ("id" :> id) @@ (DisplayField(part) :> display)
\* a record without its display field, and one without its id
Untitled(id) == ("id" :> id)
Anonymous(part, display) == (DisplayField(part) :> display)

\* the records a detail endpoint answers with
Records(part) == {Entity(part, IdA, <<"T1">>), Entity(part, IdSlash, <<"T2">>)}

\* the arrays a list endpoint answers with: empty, one and two records,
\* both orders, a repeated id, a record without id, a record without
\* display field
DataArrays(part) ==
    LET a1 == Entity(part, IdA, <<"T1">>)
        a2 == Entity(part, IdA, <<"T2">>)
        s2 == Entity(part, IdSlash, <<"T2">>)
    IN  {<<>>, <<a1>>, <<a2>>, <<a1, s2>>, <<s2, a1>>, <<a1, a2>>,
         <<s2, Anonymous(part, <<"T1">>)>>, <<s2, Untitled(IdA)>>}

\* json.dumps(record, indent=2): the fields in order, "{}" for the empty dict
RECURSIVE DumpFields(_, _)
DumpFields(rec, n) ==
    IF n > Len(Fields) THEN <<>>
    ELSE (IF Fields[n] \in DOMAIN rec
          THEN <<"  \"", Fields[n], "\": \"">> \o rec[Fields[n]] \o <<"\"\n">>
          ELSE <<>>) \o DumpFields(rec, n + 1)

Dumps(rec) == <<"{">> \o DumpFields(rec, 1) \o <<"}">>

-----------------------------------------------------------------------------
(* Resource addresses.  pydantic's AnyUrl splits an address by RFC 3986:   *)
(* scheme "://" authority path, the authority ending at the first "/".     *)
(* In threat://report/r1 the host is "report" and the path is "/r1".       *)

\* f"threat://{kind}/{id}"
Address(kind, id) == <<"threat", "://", kind, "/">> \o id

\* index of the first "/" of s, Len(s) + 1 when there is none
FirstSlash(s) ==
    IF \E n \in 1..Len(s) : s[n] = "/"
    THEN CHOOSE n \in 1..Len(s) : s[n] = "/" /\ \A m \in 1..(n - 1) : s[m] # "/"
    ELSE Len(s) + 1

AfterScheme(uri) == SubSeq(uri, 3, Len(uri))

UrlScheme(uri) == uri[1]
UrlHost(uri) == SubSeq(AfterScheme(uri), 1, FirstSlash(AfterScheme(uri)) - 1)
UrlPath(uri) ==
    SubSeq(AfterScheme(uri), FirstSlash(AfterScheme(uri)), Len(AfterScheme(uri)))

\* s.strip("/")
RECURSIVE Strip(_)
Strip(s) ==
    IF s = <<>> THEN s
    ELSE IF Head(s) = "/" THEN Strip(Tail(s))
    ELSE IF s[Len(s)] = "/" THEN Strip(SubSeq(s, 1, Len(s) - 1))
    ELSE s

\* s.split("/"): the segments between the slashes, <<"">> for the empty string
RECURSIVE Split(_)
Split(s) ==
    IF FirstSlash(s) > Len(s) THEN <<s>>
    ELSE <<SubSeq(s, 1, FirstSlash(s) - 1)>> \o Split(SubSeq(s, FirstSlash(s) + 1, Len(s)))

FooUri == <<"foo", "://", "report", "/", "1">>
WidgetUri == <<"threat", "://", "widget", "/", "1">>

\* the addresses a caller reads in the model: those list_resources can
\* emit, the two malformed ones, and two whose path holds kind and id
Uris ==
    {Address(k, i) : k \in Kinds, i \in Ids}
    \cup {FooUri, WidgetUri}
    \cup {Address("orkl", <<k, "/">> \o IdA) : k \in {"actor", "source"}}

-----------------------------------------------------------------------------
(* What a handler ends with: a returned value or a raised exception.       *)
(* The four ValueErrors of the code are named by the condition they        *)
(* signal: "Unsupported URI scheme" InvalidAddress, "Unknown resource      *)
(* type" UnknownResourceType, "... is required." MissingArgument,          *)
(* "Unknown tool" UnknownTool.  Other exceptions keep their Python name.   *)

Ok(v) == [fault |-> "", value |-> v]
Fault(f) == [fault |-> f, value |-> <<>>]

-----------------------------------------------------------------------------
(* handle_list_resources *)

NamePrefix(part) ==
    CASE part = "threat_reports" -> "Threat Report: "
      [] part = "threat_actors" -> "Threat Actor: "
      [] part = "sources" -> "Source: "

DescriptionPrefix(part) ==
    CASE part = "threat_reports" -> "Threat report titled "
      [] part = "threat_actors" -> "Threat actor known as "
      [] part = "sources" -> "Source "

\* types.Resource(...) of one cached entry
Resource(part, key, details) ==
    [uri |-> Address(KindOf(part), key),
     name |-> <<NamePrefix(part)>> \o details[DisplayField(part)],
     description |-> <<DescriptionPrefix(part)>> \o details[DisplayField(part)],
     mimeType |-> "application/json"]

\* one list comprehension over cache[part].items()
ResourcesOf(c, part) ==
    [n \in 1..Len(c[part]) |-> Resource(part, c[part][n].key, c[part][n].val)]

\* details['title'] raises KeyError when the entry has no such field
Listable(c, part) ==
    \A n \in 1..Len(c[part]) : DisplayField(part) \in DOMAIN c[part][n].val

ListResources(c) ==
    IF \A part \in Partitions : Listable(c, part)
    THEN Ok(ResourcesOf(c, "threat_reports") \o ResourcesOf(c, "threat_actors")
            \o ResourcesOf(c, "sources"))
    ELSE Fault("KeyError")

-----------------------------------------------------------------------------
(* handle_read_resource *)

\* resource_type, resource_id = path_parts[0], path_parts[1]
\* path_parts[1] raises IndexError when the path has one segment
Decode(uri) ==
    LET path_parts == Split(Strip(UrlPath(uri)))
    IN  IF Len(path_parts) < 2
        THEN [fault |-> "IndexError", resource_type |-> <<>>, resource_id |-> <<>>]
        ELSE [fault |-> "", resource_type |-> path_parts[1], resource_id |-> path_parts[2]]

ReadResource(c, uri) ==
    IF UrlScheme(uri) # "threat" THEN Fault("InvalidAddress")
    ELSE LET d == Decode(uri)
         IN  IF d.fault # "" THEN Fault(d.fault)
             ELSE CASE d.resource_type = <<"report">> ->
                          Ok(Dumps(Get(c["threat_reports"], d.resource_id, <<>>)))
                    [] d.resource_type = <<"actor">> ->
                          Ok(Dumps(Get(c["threat_actors"], d.resource_id, <<>>)))
                    [] d.resource_type = <<"source">> ->
                          Ok(Dumps(Get(c["sources"], d.resource_id, <<>>)))
                    [] OTHER -> Fault("UnknownResourceType")

-----------------------------------------------------------------------------
(* handle_call_tool: arguments, requests, responses *)

\* arguments: dict[str, str] | None
NoArguments == [isNone |-> TRUE, map |-> <<>>]
Arguments(m) == [isNone |-> FALSE, map |-> m]

\* what a caller passes: None, the empty mapping, or the tool's identifier
\* (an id, or the empty string)
ArgumentsFor(name) ==
    IF name \in ListTools THEN {Arguments(<<>>)}
    ELSE {NoArguments, Arguments(<<>>)}
         \cup (IF name \in DetailTools
               THEN {Arguments(IdKey(name) :> i) : i \in Ids \cup {<<>>}}
               ELSE {})

EndpointOfList(name, id) ==
    CASE name \in {"fetch_latest_threat_reports", "fetch_threat_report_details"} ->
             <<ORKL_BASE_URL, "/library/entries?limit=5&order_by=created_at&order=desc">>
      [] name \in {"fetch_threat_actors", "fetch_threat_actor_details"} ->
             <<ORKL_BASE_URL, "/ta/entries">>
      [] name \in {"fetch_sources", "fetch_source_details"} ->
             <<ORKL_BASE_URL, "/source/entries">>

\* the URL of the tool's GET request; id is the supplied identifier
Endpoint(name, id) ==
    CASE name = "fetch_latest_threat_reports" ->
             <<ORKL_BASE_URL, "/library/entries?limit=5&order_by=created_at&order=desc">>
      [] name = "fetch_threat_report_details" -> <<ORKL_BASE_URL, "/library/entry/">> \o id
      [] name = "fetch_threat_actors" -> <<ORKL_BASE_URL, "/ta/entries">>
      [] name = "fetch_threat_actor_details" -> <<ORKL_BASE_URL, "/ta/entry/">> \o id
      [] name = "fetch_sources" -> <<ORKL_BASE_URL, "/source/entries">>
      [] name = "fetch_source_details" -> <<ORKL_BASE_URL, "/source/entry/">> \o id

HTTP_OK == 200
ErrorStatuses == {500}      \* the non-success statuses the upstream answers with

NoResponse == [kind |-> "none", status |-> 0, hasData |-> FALSE,
               data |-> <<>>, text |-> <<>>]
\* client.get raises: no response arrives
TransportFailure == [NoResponse EXCEPT !.kind = "transport"]
\* a non-success status with a raw body
StatusError(status) == [NoResponse EXCEPT !.kind = "http", !.status = status,
                                          !.text = <<"boom">>]
\* status 200 with a JSON object that has no data field
NoData == [NoResponse EXCEPT !.kind = "http", !.status = HTTP_OK]
\* status 200 with a JSON object whose data field is d
WithData(d) == [NoData EXCEPT !.hasData = TRUE, !.data = d]

\* what the upstream may answer to a tool's request
Responses(name) ==
    {TransportFailure, NoData} \cup {StatusError(status) : status \in ErrorStatuses}
    \cup (IF name \in ListTools
          THEN {WithData(d) : d \in DataArrays(PartitionOf(name))}
          ELSE {WithData(d) : d \in Records(PartitionOf(name))})

-----------------------------------------------------------------------------
(* handle_call_tool: the list tools' loop and text *)

WriteAllFirst(d, recs) ==
    IF recs = <<>> THEN [dict |-> d, fault |-> ""]
    ELSE IF "id" \notin DOMAIN Head(recs) THEN [dict |-> d, fault |-> "KeyError"]
    ELSE [dict |-> Put(d, Head(recs)["id"], Head(recs)), fault |-> ""]

\* for report in reports: cache[part][report["id"]] = report
\* report["id"] raises KeyError at the first record without an id; the
\* records before it are written by then.
RECURSIVE WriteAll(_, _)
WriteAll(d, recs) ==
    IF recs = <<>> THEN [dict |-> d, fault |-> ""]
    ELSE IF "id" \notin DOMAIN Head(recs) THEN [dict |-> d, fault |-> "KeyError"]
    ELSE WriteAll(Put(d, Head(recs)["id"], Head(recs)), Tail(recs))

SummaryLabel(part) == IF part = "threat_reports" THEN ", Title: " ELSE ", Name: "

\* f"ID: {report['id']}, Title: {report['title']}"
SummaryLine(part, rec) ==
    <<"ID: ">> \o rec["id"] \o <<SummaryLabel(part)>> \o rec[DisplayField(part)]

\* "\n".join(lines)
RECURSIVE Join(_)
Join(lines) ==
    IF lines = <<>> THEN <<>>
    ELSE IF Len(lines) = 1 THEN lines[1]
    ELSE lines[1] \o <<"\n">> \o Join(Tail(lines))

\* f"Error: {response.status_code} {response.text}"
ErrorText(resp) == <<"Error: ", ToString(resp.status), " ">> \o resp.text

\* [types.TextContent(type="text", text=...)]
TextResult(text) == Ok(<<[type |-> "text", text |-> text]>>)

\* the branch of status 200: the cache it leaves and what it ends with
OnSuccess(c, name, id, resp) ==
    LET part == PartitionOf(name)
    IN  IF name \in ListTools
        THEN LET records == IF resp.hasData THEN resp.data ELSE <<>>
                 written == WriteAll(c[part], records)
                 c2 == [c EXCEPT ![part] = written.dict]
             IN  IF written.fault # "" THEN [cache |-> c2, out |-> Fault(written.fault)]
                 ELSE IF \E n \in 1..Len(records) : DisplayField(part) \notin DOMAIN records[n]
                 THEN [cache |-> c2, out |-> Fault("KeyError")]
                 ELSE [cache |-> c2,
                       out |-> TextResult(Join([n \in 1..Len(records) |->
                                                   SummaryLine(part, records[n])]))]
        ELSE LET details == IF resp.hasData THEN resp.data ELSE <<>>
             IN  [cache |-> [c EXCEPT ![part] = Put(c[part], id, details)],
                  out |-> TextResult(Dumps(details))]

OnResponseUnchecked(c, name, id, resp) ==
    IF resp.kind = "transport" THEN [cache |-> c, out |-> Fault("TransportError")]
    ELSE OnSuccess(c, name, id, resp)

\* the handler from the return of client.get on: the cache it leaves and
\* what it ends with
OnResponse(c, name, id, resp) ==
    IF resp.kind = "transport" THEN [cache |-> c, out |-> Fault("TransportError")]
    ELSE IF resp.status # HTTP_OK THEN [cache |-> c, out |-> TextResult(ErrorText(resp))]
    ELSE OnSuccess(c, name, id, resp)

BeforeRequestArgumentsFirst(name, arguments) ==
    IF name \in ListTools THEN ""
    ELSE IF arguments.isNone THEN "AttributeError"
    ELSE IF name \notin DetailTools THEN "UnknownTool"
    ELSE IF IdKey(name) \notin DOMAIN arguments.map THEN "MissingArgument"
    ELSE IF arguments.map[IdKey(name)] = <<>> THEN "MissingArgument"
    ELSE ""

\* the handler up to client.get: the exception it raises before any
\* request, "" when it reaches the request
BeforeRequest(name, arguments) ==
    IF name \in ListTools THEN ""
    ELSE IF name \in DetailTools
    THEN IF arguments.isNone THEN "AttributeError"      \* None.get
         ELSE IF IdKey(name) \notin DOMAIN arguments.map THEN "MissingArgument"
         ELSE IF arguments.map[IdKey(name)] = <<>> THEN "MissingArgument"
         ELSE ""
    ELSE "UnknownTool"

\* the identifier a detail tool was given
SuppliedId(name, arguments) ==
    IF name \in DetailTools /\ ~arguments.isNone /\ IdKey(name) \in DOMAIN arguments.map
    THEN arguments.map[IdKey(name)]
    ELSE <<>>

-----------------------------------------------------------------------------
\* the record of a finished handler invocation: op is "tool", "list" or
\* "read"; task, name, arguments and resp are those of a tool invocation,
\* uri that of a read
Finished(op, task, name, arguments, uri, resp, out) ==
    [op |-> op, task |-> task, name |-> name, arguments |-> arguments, uri |-> uri,
     resp |-> resp, out |-> out]

\* history of the list calls: ok while every tool invocation that finished
\* was a list tool that got status 200 and returned its summary; ids are
\* the ids of the records those calls received, per partition, each once,
\* in the order of their first arrival
NothingSeen == [p \in Partitions |-> <<>>]

RECURSIVE FirstSeen(_, _)
FirstSeen(ids, recs) ==
    IF recs = <<>> THEN ids
    ELSE FirstSeen(IF \E n \in 1..Len(ids) : ids[n] = Head(recs)["id"]
                   THEN ids ELSE Append(ids, Head(recs)["id"]),
                   Tail(recs))

SeenAfter(name, resp, out) ==
    IF seen.ok /\ name \in ListTools /\ resp.kind = "http" /\ resp.status = HTTP_OK
       /\ out.fault = ""
    THEN [seen EXCEPT !.ids[PartitionOf(name)] = FirstSeen(@, resp.data)]
    ELSE [ok |-> FALSE, ids |-> NothingSeen]

Init ==
    /\ cache = [p \in Partitions |-> <<>>]
    /\ inflight = <<>>
    /\ clients = {}
    /\ ncalls = 0
    /\ requests = 0
    /\ last = Finished("none", 0, "", NoArguments, <<>>, NoResponse, Ok(<<>>))
    /\ seen = [ok |-> TRUE, ids |-> NothingSeen]

Remove(f, t) == [u \in DOMAIN f \ {t} |-> f[u]]

ReleaseOnReturn(open, t, out) == IF out.fault = "" THEN open \ {t} ELSE open

\* leaving "async with httpx.AsyncClient() as client": the client of task t
\* is closed, whether the block returns or raises
Release(open, t, out) == open \ {t}

\* handle_call_tool from its start to client.get, or to the exception it
\* raises before: the client is opened, and closed again when the
\* handler leaves the async with block
CallTool(name, arguments) ==
    LET t == ncalls + 1
        fault == BeforeRequest(name, arguments)
    IN  /\ ncalls < MaxCalls
        /\ ncalls' = t
        /\ IF fault = ""
           THEN /\ clients' = clients \cup {t}
                /\ requests' = requests + 1
                /\ inflight' = (t :> [name |-> name, arguments |-> arguments,
                                      id |-> SuppliedId(name, arguments),
                                      url |-> Endpoint(name, SuppliedId(name, arguments))])
                                @@ inflight
                /\ UNCHANGED <<last, seen>>
           ELSE /\ clients' = Release(clients \cup {t}, t, Fault(fault))
                /\ last' = Finished("tool", t, name, arguments, <<>>, NoResponse,
                                    Fault(fault))
                /\ seen' = SeenAfter(name, NoResponse, Fault(fault))
                /\ UNCHANGED <<requests, inflight>>
        /\ UNCHANGED cache

ResumeInOrder(t, resp) ==
    LET frame == inflight[t]
        after == OnResponse(cache, frame.name, frame.id, resp)
    IN  /\ \A u \in DOMAIN inflight : t <= u
        /\ cache' = after.cache
        /\ last' = Finished("tool", t, frame.name, frame.arguments, <<>>, resp, after.out)
        /\ seen' = SeenAfter(frame.name, resp, after.out)
        /\ inflight' = Remove(inflight, t)
        /\ clients' = Release(clients, t, after.out)
        /\ UNCHANGED <<ncalls, requests>>

\* handle_call_tool from the return of client.get to its end
Resume(t, resp) ==
    LET frame == inflight[t]
        after == OnResponse(cache, frame.name, frame.id, resp)
    IN  /\ cache' = after.cache
        /\ last' = Finished("tool", t, frame.name, frame.arguments, <<>>, resp, after.out)
        /\ seen' = SeenAfter(frame.name, resp, after.out)
        /\ inflight' = Remove(inflight, t)
        /\ clients' = Release(clients, t, after.out)
        /\ UNCHANGED <<ncalls, requests>>


HandleListResources ==
    /\ last' = Finished("list", 0, "", NoArguments, <<>>, NoResponse, ListResources(cache))
    /\ UNCHANGED <<cache, inflight, clients, ncalls, requests, seen>>

HandleReadResourceSetDefault(uri) ==
    LET d == Decode(uri)
        part == CASE d.resource_type = <<"report">> -> "threat_reports"
                  [] d.resource_type = <<"actor">> -> "threat_actors"
                  [] OTHER -> "sources"
    IN  /\ last' = Finished("read", 0, "", NoArguments, uri, NoResponse,
                            ReadResource(cache, uri))
        /\ cache' = IF ReadResource(cache, uri).fault = ""
                    THEN [cache EXCEPT ![part] = Put(@, d.resource_id,
                                                     Get(@, d.resource_id, <<>>))]
                    ELSE cache
        /\ UNCHANGED <<inflight, clients, ncalls, requests, seen>>

HandleReadResource(uri) ==
    /\ last' = Finished("read", 0, "", NoArguments, uri, NoResponse,
                        ReadResource(cache, uri))
    /\ UNCHANGED <<cache, inflight, clients, ncalls, requests, seen>>

Next ==
    \/ \E name \in CalledNames : \E arguments \in ArgumentsFor(name) :
           CallTool(name, arguments)
    \/ \E t \in DOMAIN inflight : \E resp \in Responses(inflight[t].name) :
           Resume(t, resp)
    \/ HandleListResources
    \/ \E uri \in Uris : HandleReadResource(uri)

Spec == Init /\ [][Next]_vars

-----------------------------------------------------------------------------
(* Steps and cases the properties speak of *)

\* a tool invocation ends in this step (tasks are never reused)
ToolFinishes == last'.op = "tool" /\ (last.op # "tool" \/ last.task # last'.task)

\* a read_resource call runs in this step
ReadRuns ==
    /\ last'.op = "read"
    /\ (last.op # "read" \/ last.uri # last'.uri \/ last.out # last'.out)

\* a detail tool called without its identifier: no mapping, or no such key
Unsupplied(name, arguments) ==
    /\ name \in DetailTools
    /\ (arguments.isNone \/ IdKey(name) \notin DOMAIN arguments.map)

\* text holds piece as a run of consecutive atoms
Carries(text, piece) ==
    \E n \in 0..(Len(text) - Len(piece)) : SubSeq(text, n + 1, n + Len(piece)) = piece

\* the record a detail fetch with status 200 received
StoredRecord(resp) == IF resp.hasData THEN resp.data ELSE <<>>

\* l is a detail fetch that got status 200
DetailStored(l) ==
    l.op = "tool" /\ l.name \in DetailTools /\ l.resp.kind = "http" /\ l.resp.status = HTTP_OK

-----------------------------------------------------------------------------
(* C1: a detail tool invoked without its identifier (no argument mapping,  *)
(* or a mapping without the key) fails with MissingArgument, issues no     *)
(* upstream request and leaves the cache unchanged.                        *)
C1_MissingIdentifier ==
    [][(ToolFinishes /\ Unsupplied(last'.name, last'.arguments))
        => /\ last'.out.fault = "MissingArgument"
           /\ last'.task \notin DOMAIN inflight
           /\ requests' = requests
           /\ cache' = cache]_vars

(* C2: when the upstream answers a tool's request with a non-success       *)
(* status, the invocation returns exactly one text block that carries the  *)
(* status code and the raw body, and the cache is as it was before.        *)
C2_NonSuccessStatus ==
    [][(ToolFinishes /\ last'.resp.kind = "http" /\ last'.resp.status # HTTP_OK)
        => /\ last'.out.fault = ""
           /\ Len(last'.out.value) = 1
           /\ last'.out.value[1].type = "text"
           /\ Carries(last'.out.value[1].text, <<ToString(last'.resp.status)>>)
           /\ Carries(last'.out.value[1].text, last'.resp.text)
           /\ cache' = cache]_vars

\* fetch_sources was answered with a non-success status while sources were cached
C2_Witness ==
    /\ last.op = "tool" /\ last.name = "fetch_sources"
    /\ last.resp.kind = "http" /\ last.resp.status \in ErrorStatuses
    /\ last.out.fault = ""
    /\ cache["sources"] # <<>>

(* C3: right after a detail fetch for an id got status 200 and stored its  *)
(* record, read_resource on threat://<kind>/<id> returns the JSON of that  *)
(* record.                                                                 *)
C3_DetailRoundTrip ==
    [][(DetailStored(last) /\ last'.op = "read"
        /\ last'.uri = Address(KindOf(PartitionOf(last.name)),
                               last.arguments.map[IdKey(last.name)]))
        => last'.out = Ok(Dumps(StoredRecord(last.resp)))]_vars

(* C4: the address list_resources emits for a cached entry decodes to the  *)
(* kind and id it was built from, and reading it returns the entry's       *)
(* record.                                                                 *)
C4_AddressRoundTrip ==
    \A part \in Partitions : \A n \in 1..Len(cache[part]) :
        LET uri == Address(KindOf(part), cache[part][n].key)
        IN  /\ Decode(uri) = [fault |-> "", resource_type |-> <<KindOf(part)>>,
                              resource_id |-> cache[part][n].key]
            /\ (last.op = "read" /\ last.uri = uri)
                   => last.out = Ok(Dumps(cache[part][n].val))

\* the addresses of the ids the successful list calls returned: reports,
\* then actors, then sources, each in the order of first arrival
AddressesOf(part) ==
    [n \in 1..Len(seen.ids[part]) |-> Address(KindOf(part), seen.ids[part][n])]

ExpectedAddresses ==
    AddressesOf("threat_reports") \o AddressesOf("threat_actors") \o AddressesOf("sources")

(* C5: after successful list calls only, list_resources returns one        *)
(* resource per (kind, id) those calls returned and no other: reports,     *)
(* then actors, then sources, each kind in the order of first write.       *)
C5_ListingCompleteness ==
    (seen.ok /\ last.op = "list")
        => /\ last.out.fault = ""
           /\ [n \in 1..Len(last.out.value) |-> last.out.value[n].uri] = ExpectedAddresses

\* two list calls, the second repeating an id of the first, then a listing
\* of two reports
C5_Witness ==
    /\ seen.ok /\ last.op = "list" /\ ncalls = MaxCalls /\ inflight = <<>>
    /\ Len(last.out.value) = 2
    /\ Len(cache["threat_reports"]) = 2
    /\ cache["threat_reports"][1].val[DisplayField("threat_reports")] = <<"T2">>
    /\ cache["threat_reports"][1].key = IdA

(* C6: read_resource on threat://<kind>/<id> for an id that is not cached  *)
(* returns the empty JSON object and does not fault.                       *)
C6_CacheMissRead ==
    \A part \in Partitions : \A id \in Ids :
        (last.op = "read" /\ last.uri = Address(KindOf(part), id)
         /\ ~HasKey(cache[part], id))
            => last.out = Ok(<<"{", "}">>)

(* C7: reading foo://report/1 fails with InvalidAddress, reading           *)
(* threat://widget/1 fails with UnknownResourceType, and neither changes   *)
(* the cache.                                                              *)
C7_DecodingFailures ==
    [][ReadRuns
        => /\ (last'.uri = FooUri => last'.out.fault = "InvalidAddress")
           /\ (last'.uri = WidgetUri => last'.out.fault = "UnknownResourceType")
           /\ cache' = cache]_vars

(* C8: a tool invocation that ends in a fault leaves every cache entry as  *)
(* it was before the invocation.                                           *)
C8_FaultLeavesCache ==
    [][(ToolFinishes /\ last'.out.fault # "") => cache' = cache]_vars

(* C9: every cached entry has its kind's display field, and list_resources *)
(* returns a listing rather than faulting.                                 *)
C9_DisplayFieldPopulated ==
    /\ \A part \in Partitions : \A n \in 1..Len(cache[part]) :
           DisplayField(part) \in DOMAIN cache[part][n].val
    /\ last.op = "list" => last.out.fault = ""

\* two detail fetches of one tool for one id, both suspended
Racing(t, u) ==
    /\ t # u
    /\ inflight[t].name \in DetailTools
    /\ inflight[t].name = inflight[u].name
    /\ inflight[t].id = inflight[u].id

(* C10: while two detail fetches for one id are in flight, the one whose   *)
(* response is handled replaces the entry by its record in whole, and a    *)
(* read_resource of the id's address returns the cached entry in whole.    *)
C10_RaceLastWriteWins ==
    [][\A t \in DOMAIN inflight : \A u \in DOMAIN inflight :
          Racing(t, u)
          => LET part == PartitionOf(inflight[t].name)
                 id == inflight[t].id
             IN  /\ (ToolFinishes /\ last'.task = t /\ DetailStored(last'))
                        => Get(cache'[part], id, <<>>) = StoredRecord(last'.resp)
                 /\ (ReadRuns /\ last'.uri = Address(KindOf(part), id))
                        => last'.out = Ok(Dumps(Get(cache[part], id, <<>>)))]_vars

(* C11: a suspended tool invocation blocks nothing: while it waits for its *)
(* response, the list_resources step and the read_resource step can be     *)
(* taken, every tool invocation can start, and every other suspended       *)
(* invocation completes in the step that handles its own response.         *)
C11_HungCallStallsOnlyItself ==
    inflight # <<>> =>
        /\ ENABLED HandleListResources
        /\ ENABLED (\E uri \in Uris : HandleReadResource(uri))
        /\ ncalls < MaxCalls
               => \A name \in CalledNames : \A arguments \in ArgumentsFor(name) :
                      ENABLED CallTool(name, arguments)
        /\ \A u \in DOMAIN inflight :
               DOMAIN inflight # {u}
                   => ENABLED (\E resp \in Responses(inflight[u].name) : Resume(u, resp))

\* the first invocation is still suspended; the second, started after it,
\* got its response and has finished
C11_Witness ==
    /\ DOMAIN inflight = {1}
    /\ last.op = "tool" /\ last.task = 2 /\ last.resp.kind = "http"

(* C12: a client is open for exactly the tool invocations in progress, one *)
(* each, and none is open once every invocation has finished, whichever    *)
(* way each ended.                                                         *)
C12_ClientScopedToInvocation ==
    /\ clients = DOMAIN inflight
    /\ Cardinality(clients) = Cardinality(DOMAIN inflight)
    /\ inflight = <<>> => clients = {}

\* an invocation ended in a transport exception while another is in progress
C12_Witness ==
    /\ last.op = "tool" /\ last.out.fault = "TransportError"
    /\ Cardinality(clients) = 1
    /\ ncalls = 2

(* C13: a tool invocation whose name is none of the six known names fails  *)
(* with UnknownTool whatever its arguments, none included; it issues no    *)
(* upstream request, is never suspended, and leaves the cache unchanged.   *)
C13_UnknownTool ==
    [][(ToolFinishes /\ last'.name \notin ToolNames)
        => /\ last'.out.fault = "UnknownTool"
           /\ requests' = requests
           /\ cache' = cache
           /\ last'.task \notin DOMAIN inflight]_vars

\* an unknown name called without an argument mapping has failed
C13_Witness ==
    /\ last.op = "tool" /\ last.name = "fetch_everything"
    /\ last.arguments.isNone
    /\ last.out.fault = "UnknownTool"

\* the keys of a partition
C14_Keys(c, part) == {c[part][n].key : n \in 1..Len(c[part])}

(* C14: no step removes a cache entry: a (kind, id) key that is present    *)
(* stays present in every later state.                                     *)
C14_EntriesNeverDeleted ==
    [][\A part \in Partitions : C14_Keys(cache, part) \subseteq C14_Keys(cache', part)]_vars

\* a second invocation wrote to a partition that already held an entry under
\* another key, and both keys are there
C14_Witness ==
    /\ last.task = 2 /\ DetailStored(last)
    /\ HasKey(cache[PartitionOf(last.name)], last.arguments.map[IdKey(last.name)])
    /\ Len(cache[PartitionOf(last.name)]) = 2

\* a list_resources call runs in this step
ListRuns == last'.op = "list" /\ (last.op # "list" \/ last.out # last'.out)

(* C15: list_resources and read_resource only read: a step of either,      *)
(* whether it returns a result or raises, issues no upstream request,      *)
(* suspends nothing and leaves the cache as it was.                        *)
C15_ResourceHandlersReadOnly ==
    [][(ListRuns \/ ReadRuns)
        => /\ requests' = requests
           /\ cache' = cache
           /\ inflight' = inflight
           /\ clients' = clients]_vars

\* a read of an address nothing is cached under returned the empty object,
\* after tool invocations that fetched something else
C15_Witness ==
    /\ last.op = "read"
    /\ last.uri = Address("orkl", <<"actor", "/">> \o IdA)
    /\ last.out = Ok(<<"{", "}">>)
    /\ cache["threat_actors"] = <<>>
    /\ requests > 0

\* l is a list tool that got status 200
ListAnswered(l) ==
    l.op = "tool" /\ l.name \in ListTools /\ l.resp.kind = "http" /\ l.resp.status = HTTP_OK

\* text.split("\n")
RECURSIVE LinesOf(_)
LinesOf(text) ==
    IF \E n \in 1..Len(text) : text[n] = "\n"
    THEN LET n == CHOOSE m \in 1..Len(text) :
                      text[m] = "\n" /\ \A j \in 1..(m - 1) : text[j] # "\n"
         IN  <<SubSeq(text, 1, n - 1)>> \o LinesOf(SubSeq(text, n + 1, Len(text)))
    ELSE <<text>>

\* the last element of data that has the id of element n
LastWithId(data, n) ==
    data[CHOOSE m \in n..Len(data) :
             /\ data[m]["id"] = data[n]["id"]
             /\ \A j \in (m + 1)..Len(data) : data[j]["id"] # data[n]["id"]]

(* C16: a list tool answered with status 200 and a data array writes every *)
(* element under the element's own id, a later element of the same id over *)
(* an earlier one, and returns one text block with one summary line per    *)
(* element in the array's order; answered without a data field it writes   *)
(* nothing and returns one block of empty text.                            *)
C16_ListWritesAndSummarises ==
    [][(ToolFinishes /\ ListAnswered(last'))
        => LET part == PartitionOf(last'.name)
               data == last'.resp.data
               label == IF part = "threat_reports" THEN ", Title: " ELSE ", Name: "
           IN  IF last'.resp.hasData
               THEN /\ \A n \in 1..Len(data) : "id" \in DOMAIN data[n]
                    /\ \A n \in 1..Len(data) :
                           /\ HasKey(cache'[part], data[n]["id"])
                           /\ Get(cache'[part], data[n]["id"], <<>>) = LastWithId(data, n)
                    /\ last'.out.fault = ""
                    /\ Len(last'.out.value) = 1
                    /\ \A n \in 1..Len(data) : DisplayField(part) \in DOMAIN data[n]
                    /\ IF data = <<>> THEN last'.out.value[1].text = <<>>
                       ELSE LinesOf(last'.out.value[1].text)
                                = [n \in 1..Len(data) |->
                                      <<"ID: ">> \o data[n]["id"] \o <<label>>
                                          \o data[n][DisplayField(part)]]
               ELSE /\ cache' = cache
                    /\ last'.out = Ok(<<[type |-> "text", text |-> <<>>]>>)]_vars

\* the ids a finished tool invocation that got status 200 writes under
WrittenIds(l) ==
    IF l.name \in DetailTools THEN {l.arguments.map[IdKey(l.name)]}
    ELSE {l.resp.data[n]["id"] :
              n \in {m \in 1..Len(l.resp.data) : "id" \in DOMAIN l.resp.data[m]}}

\* the addresses of a listing, in its order
ListedUris(listing) == [n \in 1..Len(listing.value) |-> listing.value[n].uri]

CatalogEndpoint(name, id) ==
    CASE name = "fetch_latest_threat_reports" ->
             <<"https://orkl.eu/api/v1",
               "/library/entries?limit=5&order_by=created_at&order=desc">>
      [] name = "fetch_threat_report_details" ->
             <<"https://orkl.eu/api/v1", "/library/entry/">> \o id
      [] name = "fetch_threat_actors" -> <<"https://orkl.eu/api/v1", "/ta/entries">>
      [] name = "fetch_threat_actor_details" ->
             <<"https://orkl.eu/api/v1", "/ta/entry/">> \o id
      [] name = "fetch_sources" -> <<"https://orkl.eu/api/v1", "/source/entries">>
      [] name = "fetch_source_details" ->
             <<"https://orkl.eu/api/v1", "/source/entry/">> \o id

\* a known name, and for a detail tool a non-empty identifier
PassesValidation(name, arguments) ==
    \/ name \in ListTools
    \/ /\ name \in DetailTools
       /\ ~arguments.isNone
       /\ IdKey(name) \in DOMAIN arguments.map
       /\ arguments.map[IdKey(name)] # <<>>

(* C18: a tool invocation issues one upstream request, to its catalog      *)
(* endpoint with the supplied id substituted, exactly when its name is     *)
(* known and validation passes, and otherwise none; no later step of it    *)
(* issues another; and what it ends with is decided by its name, its       *)
(* identifier and the response alone, whatever the cache holds.            *)
C18_OneUpstreamCall ==
    [][/\ ncalls' # ncalls
          => IF ncalls' \in DOMAIN inflight'
             THEN /\ requests' = requests + 1
                  /\ PassesValidation(inflight'[ncalls'].name, inflight'[ncalls'].arguments)
                  /\ inflight'[ncalls'].url
                        = CatalogEndpoint(inflight'[ncalls'].name,
                                          SuppliedId(inflight'[ncalls'].name,
                                                     inflight'[ncalls'].arguments))
             ELSE /\ requests' = requests
                  /\ last'.op = "tool" /\ last'.task = ncalls'
                  /\ ~PassesValidation(last'.name, last'.arguments)
                  /\ last'.out.fault # ""
       /\ ncalls' = ncalls => requests' = requests
       /\ (ToolFinishes /\ last'.resp.kind # "none")
          => last'.out = OnResponse([p \in Partitions |-> <<>>], last'.name,
                                    SuppliedId(last'.name, last'.arguments),
                                    last'.resp).out]_vars

\* of two invocations the first failed validation and requested nothing,
\* the second is suspended on the one request it issued
C18_Witness ==
    /\ ncalls = 2 /\ requests = 1
    /\ DOMAIN inflight = {2}
    /\ inflight[2].url = <<"https://orkl.eu/api/v1", "/source/entry/">> \o IdSlash

(* C19: a tool invocation changes the cache partition of its own kind and  *)
(* no other: report tools leave actors and sources as they were, actor     *)
(* tools reports and sources, source tools reports and actors.             *)
C19_OwnPartitionOnly ==
    [][/\ (ToolFinishes /\ last'.name \in {"fetch_latest_threat_reports",
                                            "fetch_threat_report_details"})
          => /\ cache'["threat_actors"] = cache["threat_actors"]
             /\ cache'["sources"] = cache["sources"]
       /\ (ToolFinishes /\ last'.name \in {"fetch_threat_actors",
                                            "fetch_threat_actor_details"})
          => /\ cache'["threat_reports"] = cache["threat_reports"]
             /\ cache'["sources"] = cache["sources"]
       /\ (ToolFinishes /\ last'.name \in {"fetch_sources", "fetch_source_details"})
          => /\ cache'["threat_reports"] = cache["threat_reports"]
             /\ cache'["threat_actors"] = cache["threat_actors"]]_vars

\* one id is cached as a report and as an actor, with different records
C19_Witness ==
    /\ HasKey(cache["threat_reports"], IdA)
    /\ HasKey(cache["threat_actors"], IdA)
    /\ Get(cache["threat_reports"], IdA, <<>>) # Get(cache["threat_actors"], IdA, <<>>)
    /\ last.op = "tool" /\ last.name = "fetch_threat_actor_details"

(* C20: the cache changes only in the step in which a tool invocation      *)
(* handles its response, and when that is a list tool answered with status *)
(* 200 and elements that all carry an id, the step writes them all: no     *)
(* state, hence no list_resources or read_resource call between two        *)
(* steps, holds some but not all of them.                                  *)
C20_ListWritesAtomic ==
    [][cache' # cache
        => /\ ToolFinishes
           /\ last'.task \in DOMAIN inflight
           /\ (/\ ListAnswered(last')
               /\ \A n \in 1..Len(last'.resp.data) : "id" \in DOMAIN last'.resp.data[n])
              => \A n \in 1..Len(last'.resp.data) :
                     /\ HasKey(cache'[PartitionOf(last'.name)], last'.resp.data[n]["id"])
                     /\ Get(cache'[PartitionOf(last'.name)], last'.resp.data[n]["id"], <<>>)
                           = LastWithId(last'.resp.data, n)]_vars

\* a list tool, while another invocation is suspended, has written the two
\* records of its response
C20_Witness ==
    /\ ListAnswered(last) /\ Len(last.resp.data) = 2
    /\ inflight # <<>>
    /\ Len(cache[PartitionOf(last.name)]) = 2
    /\ \A n \in 1..2 : cache[PartitionOf(last.name)][n].val = last.resp.data[n]

====
